---- MODULE Spec2Model ----
(***************************************************************************)
(* A model of the greenlight API's data layer: the movie store with its    *)
(* optimistic-concurrency update (internal/data/movies.go), the token      *)
(* store (TokenModel), the token-creation handlers (cmd/api/tokens.go),    *)
(* the Runtime JSON conversion, the permission gate on the routes          *)
(* (internal/data/permissions.go, cmd/api/routes.go) and the Validator.    *)
(*                                                                         *)
(* A statement sent to PostgreSQL is one atomic step: a single UPDATE,     *)
(* DELETE or INSERT is applied to the table in one transaction, and two    *)
(* UPDATEs of one row are serialised by the row lock, the second one       *)
(* re-evaluating its WHERE clause on the committed row.                    *)
(*                                                                         *)
(* Strings are sequences: a title is the sequence of its lower-cased       *)
(* words, a JSON text is the sequence of its characters.                   *)
(***************************************************************************)
EXTENDS Integers, Naturals, Sequences, FiniteSets, TLC

VARIABLES
    movies,     \* the movies table: id -> row
    nextID,     \* the next value of the bigserial sequence behind movies.id
    last,       \* the last completed call: operation, arguments, results
    racer,      \* per racing request: its *Movie struct and the error it got
    tokens,     \* the tokens table: a set of rows
    now,        \* the clock
    drawn,      \* how many 16-byte values crypto/rand has handed out
    issued,     \* history: the tokens TokenModel.New has returned
    revoked,    \* history: issued tokens a later DeleteAllForUser covered
    rt,         \* the Runtime value being encoded and decoded
    users_permissions,  \* the users_permissions table, joined to the codes
    validator,  \* a Validator (v in the source)
    checks      \* history: the Check and AddError calls made on it

vars == <<movies, nextID, last, racer, tokens, now, drawn, issued, revoked, rt,
          users_permissions, validator, checks>>

-----------------------------------------------------------------------------
(* Bounds of the model *)

MaxID == 2          \* rows the bigserial sequence may hand out
MaxVersion == 2     \* highest version a row of the store's state machine reaches
NRacers == 3        \* concurrent Update calls of the race
MaxPage == 2        \* page numbers requested of GetAll
MaxPageSize == 2    \* page sizes requested of GetAll
MaxTokens == 2      \* values drawn from crypto/rand
MaxTime == 1        \* how far the clock advances, in days
MaxRuntime == 150   \* runtimes encoded: -MaxRuntime .. MaxRuntime

-----------------------------------------------------------------------------
(* Errors.  errors.New returns a fresh pointer on every call, so a         *)
(* sentinel is its identity (ptr) together with its message text;          *)
(* errors.Is compares identities.                                          *)

NoError == [ptr |-> "nil", msg |-> ""]

ErrRecordNotFound == [ptr |-> "data.ErrRecordNotFound", msg |-> "record not found"]

ErrEditConflict == [ptr |-> "data.ErrEditConflict", msg |-> "record not found"]

SqlErrNoRows == [ptr |-> "sql.ErrNoRows", msg |-> "sql: no rows in result set"]

\* What the driver reports when a statement does not run to completion: the
\* 3-second context deadline passed (a lost connection is handled alike).
\* The statement then has no effect.
Faults == {"context deadline exceeded"}

DriverError(f) == [ptr |-> "driver", msg |-> f]

ErrorsIs(err, target) == err.ptr = target.ptr

NoFault == "none"

FaultInputs == Faults \cup {NoFault}

-----------------------------------------------------------------------------
(* Movies *)

\* The column default of movies.version
DefaultVersion == 1

\* The user-editable fields of a movie
Payloads ==
    { [Title |-> <<"inception">>, Year |-> 2010, Runtime |-> 148,
       Genres |-> <<"scifi", "thriller">>],
      [Title |-> <<"the", "matrix">>, Year |-> 1999, Runtime |-> 136,
       Genres |-> <<"scifi">>] }

\* A Movie struct (CreatedAt is written once by the store and never read by
\* the operations modelled here; it is left out)
Movie(id, p, v) ==
    [ID |-> id, Title |-> p.Title, Year |-> p.Year, Runtime |-> p.Runtime,
     Genres |-> p.Genres, Version |-> v]

Row(m, v) ==
    [title |-> m.Title, year |-> m.Year, runtime |-> m.Runtime,
     genres |-> m.Genres, version |-> v]

RowToMovie(id, r) ==
    [ID |-> id, Title |-> r.title, Year |-> r.year, Runtime |-> r.runtime,
     Genres |-> r.genres, Version |-> r.version]

\* INSERT INTO movies (title, year, runtime, genres) VALUES (...)
\* RETURNING id, created_at, version, scanned into the struct
Insert(tbl, next, m, fault) ==
    IF fault # NoFault
    THEN [tbl |-> tbl, next |-> next, movie |-> m, err |-> DriverError(fault)]
    ELSE [tbl |-> [i \in DOMAIN tbl \cup {next} |->
                     IF i = next THEN Row(m, DefaultVersion) ELSE tbl[i]],
          next |-> next + 1,
          movie |-> [m EXCEPT !.ID = next, !.Version = DefaultVersion],
          err |-> NoError]

\* UPDATE movies SET title = $1, year = $2, runtime = $3, genres = $4,
\* version = version + 1 WHERE id = $5 AND version = $6 RETURNING version
UpdateQueryStale(tbl, m) ==
    LET hit == {i \in DOMAIN tbl : i = m.ID}
    IN  [tbl |-> [i \in DOMAIN tbl |->
                    IF i \in hit THEN Row(m, tbl[i].version + 1) ELSE tbl[i]],
         returning |-> {tbl[i].version + 1 : i \in hit}]

UpdateQueryBlind(tbl, m) ==
    LET hit == {i \in DOMAIN tbl : i = m.ID /\ tbl[i].version = m.Version}
    IN  [tbl |-> [i \in DOMAIN tbl |->
                    IF i = m.ID THEN Row(m, tbl[i].version + 1) ELSE tbl[i]],
         returning |-> {tbl[i].version + 1 : i \in hit}]

UpdateQueryNoBump(tbl, m) ==
    LET hit == {i \in DOMAIN tbl : i = m.ID /\ tbl[i].version = m.Version}
    IN  [tbl |-> [i \in DOMAIN tbl |->
                    IF i \in hit THEN Row(m, tbl[i].version) ELSE tbl[i]],
         returning |-> {tbl[i].version : i \in hit}]

UpdateQuery(tbl, m) ==
    LET hit == {i \in DOMAIN tbl : i = m.ID /\ tbl[i].version = m.Version}
    IN  [tbl |-> [i \in DOMAIN tbl |->
                    IF i \in hit THEN Row(m, tbl[i].version + 1) ELSE tbl[i]],
         returning |-> {tbl[i].version + 1 : i \in hit}]

\* QueryRowContext(...).Scan(&movie.Version): the driver's outcome
UpdateScan(tbl, m, fault) ==
    IF fault # NoFault
    THEN [tbl |-> tbl, movie |-> m, err |-> DriverError(fault)]
    ELSE LET q == UpdateQuery(tbl, m)
         IN  IF q.returning = {}
             THEN [tbl |-> q.tbl, movie |-> m, err |-> SqlErrNoRows]
             ELSE [tbl |-> q.tbl,
                   movie |-> [m EXCEPT !.Version = CHOOSE v \in q.returning : TRUE],
                   err |-> NoError]

\* The error switch of Update
UpdateErrLost(err) ==
    IF err = NoError THEN NoError
    ELSE IF ErrorsIs(err, SqlErrNoRows) THEN ErrRecordNotFound
    ELSE err

UpdateErrTranslated(err) ==
    IF err = NoError THEN NoError ELSE ErrEditConflict

UpdateErr(err) ==
    IF err = NoError THEN NoError
    ELSE IF ErrorsIs(err, SqlErrNoRows) THEN ErrEditConflict
    ELSE err

Update(tbl, m, fault) ==
    LET s == UpdateScan(tbl, m, fault)
    IN  [tbl |-> s.tbl, movie |-> s.movie, err |-> UpdateErr(s.err)]

\* DELETE FROM movies WHERE id=$1, with the rows it affected
DeleteExec(tbl, id) ==
    [tbl |-> [i \in DOMAIN tbl \ {id} |-> tbl[i]],
     rowsAffected |-> Cardinality(DOMAIN tbl \cap {id})]

\* raErr: whether res.RowsAffected() itself reports an error (it then
\* returns 0 rows with it)
Delete(tbl, id, fault, raErr) ==
    IF id < 1 THEN [tbl |-> tbl, err |-> ErrRecordNotFound]
    ELSE IF fault # NoFault THEN [tbl |-> tbl, err |-> DriverError(fault)]
    ELSE LET e == DeleteExec(tbl, id)
             rowsAffected == IF raErr THEN 0 ELSE e.rowsAffected
         IN  IF raErr
             THEN IF rowsAffected = 0
                  THEN [tbl |-> e.tbl, err |-> ErrRecordNotFound]
                  ELSE [tbl |-> e.tbl, err |-> DriverError("rows affected")]
             ELSE [tbl |-> e.tbl, err |-> NoError]

\* lib/pq answers RowsAffected() from the command tag it has already
\* parsed: the call never fails
RowsAffectedErrs == {FALSE}

\* SELECT ... FROM movies WHERE id = $1, scanned into a new struct
GetScan(tbl, id, fault) ==
    IF fault # NoFault THEN [movie |-> <<>>, err |-> DriverError(fault)]
    ELSE IF id \notin DOMAIN tbl THEN [movie |-> <<>>, err |-> SqlErrNoRows]
    ELSE [movie |-> <<RowToMovie(id, tbl[id])>>, err |-> NoError]

\* The error switch of Get
GetErr(err) ==
    IF err = NoError THEN NoError
    ELSE IF ErrorsIs(err, SqlErrNoRows) THEN ErrRecordNotFound
    ELSE err

Get(tbl, id, fault) ==
    IF id < 1 THEN [movie |-> <<>>, err |-> ErrRecordNotFound]
    ELSE LET s == GetScan(tbl, id, fault)
         IN  IF s.err # NoError THEN [movie |-> <<>>, err |-> GetErr(s.err)]
             ELSE [movie |-> s.movie, err |-> NoError]

-----------------------------------------------------------------------------
(* GetAll: search, filter, sort and paginate *)

SortInputs == {"id", "-year"}

\* Filters.sortColumn: the sort field without its leading sign
sortColumn(f) == IF f.Sort = "-id" THEN "id" ELSE IF f.Sort = "-year" THEN "year" ELSE f.Sort

\* Filters.sortDirection: a leading "-" asks for descending order
sortDirection(f) == IF f.Sort \in {"-id", "-year"} THEN "DESC" ELSE "ASC"

limit(f) == f.PageSize

offset(f) == (f.Page - 1) * f.PageSize

EmptyMetadata ==
    [CurrentPage |-> 0, PageSize |-> 0, FirstPage |-> 0, LastPage |-> 0,
     TotalRecords |-> 0]

calculateMetadata(totalRecords, pageSize, page) ==
    IF totalRecords = 0 THEN EmptyMetadata
    ELSE [CurrentPage |-> page, PageSize |-> pageSize, FirstPage |-> 1,
          LastPage |-> (totalRecords + pageSize - 1) \div pageSize,
          TotalRecords |-> totalRecords]

Elems(s) == {s[k] : k \in 1 .. Len(s)}

\* to_tsvector('simple', title) @@ plainto_tsquery('simple', $1): every
\* word of the query is a word of the title
TsMatch(title, query) == Elems(query) \subseteq Elems(title)

\* genres @> $2
ArrayContains(genres, wanted) == Elems(wanted) \subseteq Elems(genres)

\* The WHERE clause of the listing
Matching(tbl, title, genres) ==
    {i \in DOMAIN tbl :
        /\ (TsMatch(tbl[i].title, title) \/ title = <<>>)
        /\ (ArrayContains(tbl[i].genres, genres) \/ genres = <<>>)}

\* ORDER BY <column> <direction>, id ASC
SortKey(tbl, i, col) == IF col = "year" THEN tbl[i].year ELSE i

Before(tbl, i, j, col, dir) ==
    LET a == SortKey(tbl, i, col)
        b == SortKey(tbl, j, col)
    IN  \/ (dir = "ASC" /\ a < b)
        \/ (dir = "DESC" /\ a > b)
        \/ (a = b /\ i < j)

RECURSIVE OrderBy(_, _, _, _)
OrderBy(tbl, S, col, dir) ==
    IF S = {} THEN <<>>
    ELSE LET first == CHOOSE i \in S : \A j \in S \ {i} : Before(tbl, i, j, col, dir)
         IN  <<first>> \o OrderBy(tbl, S \ {first}, col, dir)

Min(a, b) == IF a < b THEN a ELSE b

\* The result set: count(*) OVER() is the size of the whole matching set,
\* carried by every row; LIMIT and OFFSET then cut the page out
GetAllQuery(tbl, title, genres, f) ==
    LET S == Matching(tbl, title, genres)
        ordered == OrderBy(tbl, S, sortColumn(f), sortDirection(f))
        page == SubSeq(ordered, offset(f) + 1, Min(offset(f) + limit(f), Len(ordered)))
    IN  [k \in 1 .. Len(page) |-> [count |-> Cardinality(S), id |-> page[k]]]

\* rows.Scan: pq.Array(movie.Genres) is handed the nil slice by value, so
\* the genres are scanned into a copy and the struct keeps its nil Genres
ScanListed(tbl, id) == [RowToMovie(id, tbl[id]) EXCEPT !.Genres = <<>>]

\* The rows.Next() loop: totalRecords is overwritten by every row scanned
RECURSIVE ScanRows(_, _, _, _, _)
ScanRows(tbl, rows, k, totalRecords, acc) ==
    IF k > Len(rows) THEN [movies |-> acc, totalRecords |-> totalRecords]
    ELSE ScanRows(tbl, rows, k + 1, rows[k].count,
                  Append(acc, ScanListed(tbl, rows[k].id)))

GetAll(tbl, title, genres, f, fault) ==
    IF fault # NoFault
    THEN [movies |-> <<>>, metadata |-> EmptyMetadata, err |-> DriverError(fault)]
    ELSE LET s == ScanRows(tbl, GetAllQuery(tbl, title, genres, f), 1, 0, <<>>)
         IN  [movies |-> s.movies,
              metadata |-> calculateMetadata(s.totalRecords, f.PageSize, f.Page),
              err |-> NoError]

-----------------------------------------------------------------------------
(* State machine of the movie store: every operation is one call of one    *)
(* request, with arguments chosen by the caller.                           *)

NoCall == [op |-> "none"]

IDInputs == 0 .. (MaxID + 1)

MovieInputs ==
    {Movie(id, p, v) : id \in IDInputs, p \in Payloads, v \in 1 .. MaxVersion}

NoRacers == <<>>

RuntimeIdle == rt = [pc |-> "idle"]

\* No permission granted; a Validator as New() returns it
GateIdle ==
    /\ users_permissions = <<>>
    /\ validator = [Errors |-> <<>>]
    /\ checks = <<>>

TokensIdle ==
    /\ tokens = {}
    /\ now = 0
    /\ drawn = 0
    /\ issued = {}
    /\ revoked = {}

TokensUnchanged ==
    UNCHANGED <<tokens, now, drawn, issued, revoked, rt, users_permissions, validator, checks>>

InitMovies ==
    /\ movies = <<>>
    /\ nextID = 1
    /\ last = NoCall
    /\ racer = NoRacers
    /\ TokensIdle
    /\ RuntimeIdle
    /\ GateIdle

DoInsert ==
    \E p \in Payloads, fault \in FaultInputs :
        LET m == Movie(0, p, 0)
            r == Insert(movies, nextID, m, fault)
        IN  /\ nextID <= MaxID
            /\ movies' = r.tbl
            /\ nextID' = r.next
            /\ last' = [op |-> "Insert", in |-> m, out |-> r.movie, err |-> r.err,
                        fault |-> fault]
            /\ UNCHANGED racer
            /\ TokensUnchanged

DoUpdate ==
    \E m \in MovieInputs, fault \in FaultInputs :
        LET r == Update(movies, m, fault)
        IN  /\ \A i \in DOMAIN r.tbl : r.tbl[i].version <= MaxVersion
            /\ movies' = r.tbl
            /\ last' = [op |-> "Update", in |-> m, out |-> r.movie, err |-> r.err,
                        fault |-> fault]
            /\ UNCHANGED <<nextID, racer>>
            /\ TokensUnchanged

DoDelete ==
    \E id \in IDInputs, fault \in FaultInputs, raErr \in RowsAffectedErrs :
        LET r == Delete(movies, id, fault, raErr)
        IN  /\ movies' = r.tbl
            /\ last' = [op |-> "Delete", in |-> id, err |-> r.err, fault |-> fault]
            /\ UNCHANGED <<nextID, racer>>
            /\ TokensUnchanged

DoGet ==
    \E id \in IDInputs, fault \in FaultInputs :
        LET r == Get(movies, id, fault)
        IN  /\ last' = [op |-> "Get", in |-> id, out |-> r.movie, err |-> r.err,
                        fault |-> fault]
            /\ UNCHANGED <<movies, nextID, racer>>
            /\ TokensUnchanged

TitleQueries == {<<>>, <<"matrix">>}

GenreFilters == {<<>>, <<"thriller">>}

FilterInputs ==
    [Page : 1 .. MaxPage, PageSize : 1 .. MaxPageSize, Sort : SortInputs]

\* The first page, as large as pages get, by id
FirstPages == {f \in FilterInputs : f.Page = 1 /\ f.PageSize = MaxPageSize /\ f.Sort = "id"}

DoGetAllOf(filters) ==
    \E title \in TitleQueries, genres \in GenreFilters, f \in filters,
       fault \in FaultInputs :
        LET r == GetAll(movies, title, genres, f, fault)
        IN  /\ last' = [op |-> "GetAll",
                        in |-> [title |-> title, genres |-> genres, filter |-> f],
                        out |-> r.movies, metadata |-> r.metadata, err |-> r.err,
                        fault |-> fault]
            /\ UNCHANGED <<movies, nextID, racer>>
            /\ TokensUnchanged

DoGetAll == DoGetAllOf(FilterInputs)

DoGetAllFirstPage == DoGetAllOf(FirstPages)

NextMovies == DoInsert \/ DoUpdate \/ DoDelete \/ DoGet

SpecMovies == InitMovies /\ [][NextMovies]_vars

-----------------------------------------------------------------------------
(* The listing: the table changes by Insert and Delete, GetAll reads it *)

NextListing == DoInsert \/ DoDelete \/ DoGetAll

SpecListing == InitMovies /\ [][NextListing]_vars

-----------------------------------------------------------------------------
(* The race: NRacers requests have fetched the same movie at the same      *)
(* version; each edits its copy and calls Update.  The UPDATE statement is *)
(* the only step of Update that touches the table.                         *)

Racers == 1 .. NRacers

InitRace ==
    \E id \in 1 .. MaxID, v \in 1 .. MaxVersion, p \in Payloads :
        /\ movies = [i \in 1 .. MaxID |->
                        Row(Movie(i, p, 0), IF i = id THEN v ELSE DefaultVersion)]
        /\ nextID = MaxID + 1
        /\ last = NoCall
        /\ racer = [r \in Racers |->
                      [movie |-> RowToMovie(id, movies[id]), start |-> v,
                       err |-> NoError, done |-> FALSE]]
        /\ TokensIdle
        /\ RuntimeIdle
        /\ GateIdle

RaceUpdate(r) ==
    \E p \in Payloads :
        LET m == Movie(racer[r].movie.ID, p, racer[r].movie.Version)
            u == Update(movies, m, NoFault)
        IN  /\ ~racer[r].done
            /\ movies' = u.tbl
            /\ racer' = [racer EXCEPT ![r] = [movie |-> u.movie, start |-> @.start,
                                              err |-> u.err, done |-> TRUE]]
            /\ last' = [op |-> "Update", in |-> m, out |-> u.movie, err |-> u.err,
                        fault |-> NoFault]
            /\ UNCHANGED nextID
            /\ TokensUnchanged

RaceStep == \E r \in Racers : RaceUpdate(r)

NextRace == RaceStep

SpecRace == InitRace /\ [][NextRace]_vars

RaceDone == {r \in DOMAIN racer : racer[r].done}

RaceWinners == {r \in RaceDone : racer[r].err = NoError}

\* C1: of the Update calls racing on one movie id with the same starting
\* version v, never two succeed; as soon as one has run, exactly one has
\* succeeded, the stored version is v+1 and the winner's struct holds v+1;
\* every other call that has run got ErrEditConflict.
C1_ExactlyOneUpdateWins ==
    /\ Cardinality(RaceWinners) <= 1
    /\ RaceDone # {} => Cardinality(RaceWinners) = 1
    /\ \A r \in RaceWinners :
          /\ racer[r].movie.Version = racer[r].start + 1
          /\ movies[racer[r].movie.ID].version = racer[r].start + 1
    /\ \A r \in RaceDone \ RaceWinners :
          /\ racer[r].err = ErrEditConflict
          /\ racer[r].movie.Version = racer[r].start

C1_Witness ==
    /\ RaceDone = Racers
    /\ Cardinality(RaceWinners) = 1
    /\ Cardinality(RaceDone \ RaceWinners) >= 2

-----------------------------------------------------------------------------
(* Tokens.  Time is counted in days.                                       *)

ScopeActivation == "activation"

ScopeAuthorization == "authorization"

Scopes == {ScopeActivation, ScopeAuthorization}

Users == {1, 2}

\* 3*24*time.Hour and 24*time.Hour, the lifetimes the handlers ask for
ActivationTTL == 3

AuthenticationTTL == 1

\* base32.StdEncoding.WithPadding(base32.NoPadding).EncodeToString and
\* sha256.Sum256 are injective on the values the model draws: each is a
\* tagged copy of its argument, so a digest is never a plaintext and the
\* plaintext is never the random bytes.
Base32Encode(bytes) == <<"base32", bytes>>

Sha256(text) == <<"sha256", text>>

\* What rand.Read reports when the CSPRNG fails
ErrRand == [ptr |-> "crypto/rand", msg |-> "csprng unavailable"]

\* (variant: the digest is taken of the buffer as make() left it, zeroed)
generateTokenHashOfZeroed(userID, ttl, scope, randomBytes, randOK, t) ==
    IF ~randOK THEN [token |-> <<>>, err |-> ErrRand]
    ELSE [token |-> <<[Hash |-> Sha256(Base32Encode(0)),
                       PlainText |-> Base32Encode(randomBytes),
                       UserID |-> userID, Expiry |-> t + ttl, Scope |-> scope]>>,
          err |-> NoError]

\* randomBytes: the 16 bytes rand.Read fills in (randOK: whether it could);
\* t: time.Now()
generateToken(userID, ttl, scope, randomBytes, randOK, t) ==
    IF ~randOK THEN [token |-> <<>>, err |-> ErrRand]
    ELSE LET plain == Base32Encode(randomBytes)
         IN  [token |-> <<[Hash |-> Sha256(plain), PlainText |-> plain,
                           UserID |-> userID, Expiry |-> t + ttl, Scope |-> scope]>>,
              err |-> NoError]

\* INSERT INTO tokens (hash, user_id, expiry, scope) VALUES ($1, $2, $3, $4)
TokenInsert(tbl, token, fault) ==
    IF fault # NoFault THEN [tbl |-> tbl, err |-> DriverError(fault)]
    ELSE [tbl |-> tbl \cup {[hash |-> token.Hash, user_id |-> token.UserID,
                             expiry |-> token.Expiry, scope |-> token.Scope]},
          err |-> NoError]

TokenNew(tbl, userID, ttl, scope, randomBytes, randOK, fault, t) ==
    LET g == generateToken(userID, ttl, scope, randomBytes, randOK, t)
    IN  IF g.err # NoError THEN [tbl |-> tbl, token |-> <<>>, err |-> g.err]
        ELSE LET i == TokenInsert(tbl, g.token[1], fault)
             IN  [tbl |-> i.tbl, token |-> g.token, err |-> i.err]

\* DELETE FROM tokens WHERE user_id=$1 AND scope=$2
DeleteAllForUserButLive(tbl, userID, scope, fault, t) ==
    IF fault # NoFault THEN [tbl |-> tbl, err |-> DriverError(fault)]
    ELSE [tbl |-> {r \in tbl : ~(r.user_id = userID /\ r.scope = scope /\ r.expiry <= t)},
          err |-> NoError]

\* (t, the time of the call, is not read)
DeleteAllForUser(tbl, userID, scope, fault, t) ==
    IF fault # NoFault THEN [tbl |-> tbl, err |-> DriverError(fault)]
    ELSE [tbl |-> {r \in tbl : ~(r.user_id = userID /\ r.scope = scope)},
          err |-> NoError]

\* The error of an expired token
ErrTokenExpired == [ptr |-> "data.ErrTokenExpired", msg |-> "token has expired"]

\* Authenticate(plaintext, scope): the lookup by digest and scope, then the
\* expiry check
Authenticate(tbl, plaintext, scope, t) ==
    LET found == {r \in tbl : r.hash = Sha256(plaintext) /\ r.scope = scope}
    IN  IF found = {} THEN [user |-> 0, err |-> ErrRecordNotFound]
        ELSE LET r == CHOOSE x \in found : TRUE
             IN  IF r.expiry <= t THEN [user |-> 0, err |-> ErrTokenExpired]
                 ELSE [user |-> r.user_id, err |-> NoError]

-----------------------------------------------------------------------------
(* The token-creation handlers.  A request is the outcome of the steps     *)
(* before the token is made: stage names the first one that stops the      *)
(* handler ("found": none did), user is the record GetByEmail returned.    *)

NoUser == [ID |-> 0, Activated |-> FALSE]

ActivationRequests ==
    {[stage |-> st, user |-> NoUser] :
        st \in {"readJSON error", "invalid input", "not found", "lookup error"}}
    \cup {[stage |-> "found", user |-> [ID |-> u, Activated |-> a]] :
            u \in Users, a \in BOOLEAN}

AuthenticationRequests ==
    {[stage |-> st, user |-> NoUser] :
        st \in {"readJSON error", "invalid input", "not found", "lookup error"}}
    \cup {[stage |-> st, user |-> [ID |-> u, Activated |-> TRUE]] :
            st \in {"password error", "wrong password", "found"}, u \in Users}

Reply(tbl, status, token) == [tbl |-> tbl, status |-> status, token |-> token]

createActivationTokenHandler(tbl, req, randomBytes, randOK, fault, t) ==
    IF req.stage = "readJSON error" THEN Reply(tbl, "serverErrorResponse", <<>>)
    ELSE IF req.stage = "invalid input" THEN Reply(tbl, "failedValidationResponse", <<>>)
    ELSE IF req.stage = "not found" THEN Reply(tbl, "notFoundResponse", <<>>)
    ELSE IF req.stage = "lookup error" THEN Reply(tbl, "serverErrorResponse", <<>>)
    ELSE IF req.user.Activated THEN Reply(tbl, "failedValidationResponse", <<>>)
    ELSE LET n == TokenNew(tbl, req.user.ID, ActivationTTL, ScopeActivation,
                           randomBytes, randOK, fault, t)
         IN  IF n.err # NoError THEN Reply(n.tbl, "serverErrorResponse", <<>>)
             ELSE Reply(n.tbl, "StatusAccepted", n.token)

createAuthenticationTokenHandlerRevoking(tbl, req, randomBytes, randOK, fault, t) ==
    IF req.stage = "readJSON error" THEN Reply(tbl, "badRequestResponse", <<>>)
    ELSE IF req.stage = "invalid input" THEN Reply(tbl, "failedValidationResponse", <<>>)
    ELSE IF req.stage = "not found" THEN Reply(tbl, "invalidCredentialsResponse", <<>>)
    ELSE IF req.stage = "lookup error" THEN Reply(tbl, "serverErrorResponse", <<>>)
    ELSE IF req.stage = "password error" THEN Reply(tbl, "serverErrorResponse", <<>>)
    ELSE IF req.stage = "wrong password" THEN Reply(tbl, "invalidCredentialsResponse", <<>>)
    ELSE LET d == DeleteAllForUser(tbl, req.user.ID, ScopeAuthorization, fault, t)
             n == TokenNew(d.tbl, req.user.ID, AuthenticationTTL, ScopeAuthorization,
                           randomBytes, randOK, fault, t)
         IN  IF d.err # NoError \/ n.err # NoError
             THEN Reply(n.tbl, "serverErrorResponse", <<>>)
             ELSE Reply(n.tbl, "StatusAccepted", n.token)

createAuthenticationTokenHandler(tbl, req, randomBytes, randOK, fault, t) ==
    IF req.stage = "readJSON error" THEN Reply(tbl, "badRequestResponse", <<>>)
    ELSE IF req.stage = "invalid input" THEN Reply(tbl, "failedValidationResponse", <<>>)
    ELSE IF req.stage = "not found" THEN Reply(tbl, "invalidCredentialsResponse", <<>>)
    ELSE IF req.stage = "lookup error" THEN Reply(tbl, "serverErrorResponse", <<>>)
    ELSE IF req.stage = "password error" THEN Reply(tbl, "serverErrorResponse", <<>>)
    ELSE IF req.stage = "wrong password" THEN Reply(tbl, "invalidCredentialsResponse", <<>>)
    ELSE LET n == TokenNew(tbl, req.user.ID, AuthenticationTTL, ScopeAuthorization,
                           randomBytes, randOK, fault, t)
         IN  IF n.err # NoError THEN Reply(n.tbl, "serverErrorResponse", <<>>)
             ELSE Reply(n.tbl, "StatusAccepted", n.token)

-----------------------------------------------------------------------------
(* State machine of the token store.  crypto/rand never repeats a value:   *)
(* the k-th draw yields the value k.                                       *)

\* The ways a call can go: the CSPRNG fails, the statement fails, or neither
Environments ==
    {[randOK |-> TRUE, fault |-> NoFault], [randOK |-> FALSE, fault |-> NoFault]}
    \cup {[randOK |-> TRUE, fault |-> f] : f \in Faults}

TTLInputs == {0, AuthenticationTTL}

MoviesIdle ==
    /\ movies = <<>>
    /\ nextID = 1
    /\ racer = NoRacers

MoviesUnchanged == UNCHANGED <<movies, nextID, racer, rt, users_permissions, validator, checks>>

InitTokens ==
    /\ MoviesIdle
    /\ last = NoCall
    /\ TokensIdle
    /\ RuntimeIdle
    /\ GateIdle

\* The history of a call that returned a token
Issue(token, via) ==
    [plain |-> token.PlainText, user |-> token.UserID, scope |-> token.Scope,
     expiry |-> token.Expiry, seq |-> drawn + 1, via |-> via]

DoTokenNew ==
    \E u \in Users, ttl \in TTLInputs, s \in Scopes, e \in Environments :
        LET r == TokenNew(tokens, u, ttl, s, drawn + 1, e.randOK, e.fault, now)
        IN  /\ drawn < MaxTokens
            /\ tokens' = r.tbl
            /\ drawn' = IF e.randOK THEN drawn + 1 ELSE drawn
            /\ issued' = IF r.err = NoError
                         THEN issued \cup {Issue(r.token[1], "New")} ELSE issued
            /\ last' = [op |-> "New", err |-> r.err, fault |-> e.fault,
                        randOK |-> e.randOK]
            /\ UNCHANGED <<now, revoked>>
            /\ MoviesUnchanged

DoCreateActivationToken ==
    \E req \in ActivationRequests, e \in Environments :
        LET r == createActivationTokenHandler(tokens, req, drawn + 1, e.randOK,
                                              e.fault, now)
            made == req.stage = "found" /\ ~req.user.Activated
        IN  /\ drawn < MaxTokens
            /\ tokens' = r.tbl
            /\ drawn' = IF made /\ e.randOK THEN drawn + 1 ELSE drawn
            /\ issued' = IF r.token # <<>>
                         THEN issued \cup {Issue(r.token[1], "handler")} ELSE issued
            /\ last' = [op |-> "createActivationTokenHandler", status |-> r.status]
            /\ UNCHANGED <<now, revoked>>
            /\ MoviesUnchanged

DoCreateAuthenticationToken ==
    \E req \in AuthenticationRequests, e \in Environments :
        LET r == createAuthenticationTokenHandler(tokens, req, drawn + 1, e.randOK,
                                                  e.fault, now)
            made == req.stage = "found"
        IN  /\ drawn < MaxTokens
            /\ tokens' = r.tbl
            /\ drawn' = IF made /\ e.randOK THEN drawn + 1 ELSE drawn
            /\ issued' = IF r.token # <<>>
                         THEN issued \cup {Issue(r.token[1], "handler")} ELSE issued
            /\ last' = [op |-> "createAuthenticationTokenHandler", status |-> r.status]
            /\ UNCHANGED <<now, revoked>>
            /\ MoviesUnchanged

DoDeleteAllForUser ==
    \E u \in Users, s \in Scopes, fault \in FaultInputs :
        LET r == DeleteAllForUser(tokens, u, s, fault, now)
        IN  /\ tokens' = r.tbl
            /\ revoked' = IF r.err = NoError
                          THEN revoked \cup {i \in issued : i.user = u /\ i.scope = s}
                          ELSE revoked
            /\ last' = [op |-> "DeleteAllForUser", err |-> r.err, fault |-> fault]
            /\ UNCHANGED <<now, drawn, issued>>
            /\ MoviesUnchanged

Tick ==
    /\ now < MaxTime
    /\ now' = now + 1
    /\ last' = [op |-> "Tick"]
    /\ UNCHANGED <<tokens, drawn, issued, revoked>>
    /\ MoviesUnchanged

NextTokens == DoTokenNew \/ DoDeleteAllForUser \/ Tick

SpecTokens == InitTokens /\ [][NextTokens]_vars

NextHandlers ==
    \/ DoCreateActivationToken
    \/ DoCreateAuthenticationToken
    \/ DoDeleteAllForUser
    \/ Tick

SpecHandlers == InitTokens /\ [][NextHandlers]_vars

-----------------------------------------------------------------------------
(* Runtime and its JSON form.  A text is the sequence of its characters.   *)

ErrInvalidRuntimeFormat ==
    [ptr |-> "data.ErrInvalidRuntimeFormat", msg |-> "invalid runtime format"]

DigitChars == <<"0", "1", "2", "3", "4", "5", "6", "7", "8", "9">>

DigitChar(d) == DigitChars[d + 1]

IsDigit(c) == \E d \in 0 .. 9 : DigitChars[d + 1] = c

DigitValue(c) == CHOOSE d \in 0 .. 9 : DigitChars[d + 1] = c

DQ == "\""

Mins == <<"m", "i", "n", "s">>

\* The verb %d on an integer
RECURSIVE FormatUint(_)
FormatUint(n) ==
    IF n < 10 THEN <<DigitChar(n)>>
    ELSE Append(FormatUint(n \div 10), DigitChar(n % 10))

FormatInt(n) == IF n < 0 THEN <<"-">> \o FormatUint(-n) ELSE FormatUint(n)

\* strconv.Quote on a text of digits, letters, signs and spaces: nothing to
\* escape
Quote(text) == <<DQ>> \o text \o <<DQ>>

\* fmt.Sprintf("%d min", r), quoted
MarshalJSON(r) ==
    [json |-> Quote(FormatInt(r) \o <<" ", "m", "i", "n">>), err |-> NoError]

\* strconv.Unquote of a double-quoted text without escapes
Unquote(text) ==
    IF Len(text) < 2 \/ text[1] # DQ \/ text[Len(text)] # DQ
    THEN [text |-> <<>>, ok |-> FALSE]
    ELSE LET inner == SubSeq(text, 2, Len(text) - 1)
         IN  IF \E k \in 1 .. Len(inner) : inner[k] = DQ
             THEN [text |-> <<>>, ok |-> FALSE]
             ELSE [text |-> inner, ok |-> TRUE]

\* strings.Split(text, sep) for a one-character separator
RECURSIVE Split(_, _)
Split(text, sep) ==
    LET at == {k \in 1 .. Len(text) : text[k] = sep}
    IN  IF at = {} THEN <<text>>
        ELSE LET k == CHOOSE x \in at : \A y \in at : x <= y
             IN  <<SubSeq(text, 1, k - 1)>> \o Split(SubSeq(text, k + 1, Len(text)), sep)

\* A 64-bit magnitude is four 16-bit limbs, least significant first
LimbBase == 65536

HalfLimb == 32768

ZeroLimbs == <<0, 0, 0, 0>>

\* limbs * 10 + d, with the carry out of the 64 bits
MulAdd(limbs, d) ==
    LET t1 == limbs[1] * 10 + d
        t2 == limbs[2] * 10 + (t1 \div LimbBase)
        t3 == limbs[3] * 10 + (t2 \div LimbBase)
        t4 == limbs[4] * 10 + (t3 \div LimbBase)
    IN  [limbs |-> <<t1 % LimbBase, t2 % LimbBase, t3 % LimbBase, t4 % LimbBase>>,
         carry |-> t4 \div LimbBase]

\* strconv.ParseUint(digits, 10, 64): the magnitude, or out of range
RECURSIVE ParseUint(_, _, _)
ParseUint(digits, k, limbs) ==
    IF k > Len(digits) THEN [limbs |-> limbs, range |-> FALSE]
    ELSE LET n == MulAdd(limbs, DigitValue(digits[k]))
         IN  IF n.carry > 0 THEN [limbs |-> limbs, range |-> TRUE]
             ELSE ParseUint(digits, k + 1, n.limbs)

\* strconv.ParseInt(text, 10, 64): sign, then digits only, within int64
ParseInt(text) ==
    LET signed == Len(text) > 0 /\ text[1] \in {"+", "-"}
        neg == Len(text) > 0 /\ text[1] = "-"
        digits == IF signed THEN SubSeq(text, 2, Len(text)) ELSE text
    IN  IF Len(digits) = 0 \/ \E k \in 1 .. Len(digits) : ~IsDigit(digits[k])
        THEN [neg |-> FALSE, limbs |-> ZeroLimbs, ok |-> FALSE]
        ELSE LET u == ParseUint(digits, 1, ZeroLimbs)
                 low == u.limbs[1] = 0 /\ u.limbs[2] = 0 /\ u.limbs[3] = 0
                 tooBig == \/ u.range
                           \/ (~neg /\ u.limbs[4] >= HalfLimb)
                           \/ (neg /\ u.limbs[4] > HalfLimb)
                           \/ (neg /\ u.limbs[4] = HalfLimb /\ ~low)
             IN  IF tooBig THEN [neg |-> neg, limbs |-> ZeroLimbs, ok |-> FALSE]
                 ELSE [neg |-> neg, limbs |-> u.limbs, ok |-> TRUE]

\* The conversion Runtime(m) of an int64 to int32: the low 32 bits of the
\* two's complement, read as a signed number
ToRuntime(m) ==
    LET lo == IF ~m.neg THEN m.limbs[1] ELSE (LimbBase - m.limbs[1]) % LimbBase
        hi == IF ~m.neg THEN m.limbs[2]
              ELSE IF m.limbs[1] = 0 THEN (LimbBase - m.limbs[2]) % LimbBase
              ELSE LimbBase - 1 - m.limbs[2]
    IN  IF hi >= HalfLimb THEN (hi - LimbBase) * LimbBase + lo ELSE hi * LimbBase + lo

\* r0: the value the receiver holds before the call
UnmarshalJSON(r0, jsonValue) ==
    LET u == Unquote(jsonValue)
    IN  IF ~u.ok THEN [r |-> r0, err |-> ErrInvalidRuntimeFormat]
        ELSE LET parts == Split(u.text, " ")
             IN  IF Len(parts) # 2 \/ parts[2] # Mins
                 THEN [r |-> r0, err |-> ErrInvalidRuntimeFormat]
                 ELSE LET m == ParseInt(parts[1])
                      IN  IF ~m.ok THEN [r |-> r0, err |-> ErrInvalidRuntimeFormat]
                          ELSE [r |-> ToRuntime(m), err |-> NoError]

-----------------------------------------------------------------------------
(* State machine of the Runtime conversion: a value is encoded and the     *)
(* output decoded again, or a text from the wire is decoded.               *)

MaxInt32 == 2147483647

RuntimeInputs == (-MaxRuntime .. MaxRuntime) \cup {MaxInt32}

Text(n) == Quote(FormatInt(n) \o <<" ">> \o Mins)

WireTexts ==
    {Text(n) : n \in {0, 102, 148, -5, MaxInt32}}
    \cup { Quote(<<"1", "0", "2", " ", "m", "i", "n", "u", "t", "e", "s">>),
           Quote(<<"a", "b", "c", " ">> \o Mins),
           Quote(<<"1", "0", "2", " ", "m", "i", "n">>),
           Quote(<<"1", "0", "2">> \o Mins),
           Quote(<<"1", "0", "2", " ", " ">> \o Mins),
           Quote(<<"+", "7", " ">> \o Mins),
           Quote(<<" ">> \o Mins),
           <<"1", "0", "2", " ">> \o Mins,
           Quote(<<"2", "1", "4", "7", "4", "8", "3", "6", "4", "8", " ">> \o Mins),
           Quote(<<"4", "2", "9", "4", "9", "6", "7", "3", "9", "8", " ">> \o Mins),
           Quote(<<"-", "2", "1", "4", "7", "4", "8", "3", "6", "4", "9", " ">> \o Mins),
           Quote(<<"9", "2", "2", "3", "3", "7", "2", "0", "3", "6", "8", "5", "4",
                   "7", "7", "5", "8", "0", "8", " ">> \o Mins) }

ReceiverInputs == {0, 90}

InitRuntime ==
    /\ MoviesIdle
    /\ last = NoCall
    /\ TokensIdle
    /\ RuntimeIdle
    /\ GateIdle

RuntimeOnly ==
    UNCHANGED <<movies, nextID, last, racer, tokens, now, drawn, issued, revoked,
                users_permissions, validator, checks>>

RtMarshal ==
    \E r \in RuntimeInputs :
        /\ rt' = [pc |-> "encoded", r |-> r, json |-> MarshalJSON(r).json]
        /\ RuntimeOnly

RtRoundTrip ==
    /\ rt.pc = "encoded"
    /\ \E r0 \in ReceiverInputs :
        LET d == UnmarshalJSON(r0, rt.json)
        IN  rt' = [pc |-> "round trip", r |-> rt.r, json |-> rt.json, r0 |-> r0,
                   back |-> d.r, err |-> d.err]
    /\ RuntimeOnly

RtUnmarshal ==
    \E text \in WireTexts, r0 \in ReceiverInputs :
        LET d == UnmarshalJSON(r0, text)
        IN  /\ rt' = [pc |-> "decoded", json |-> text, r0 |-> r0, back |-> d.r,
                      err |-> d.err]
            /\ RuntimeOnly

NextRuntime == RtMarshal \/ RtRoundTrip \/ RtUnmarshal

SpecRuntime == InitRuntime /\ [][NextRuntime]_vars

-----------------------------------------------------------------------------
(* The whole store.  Models wraps independent models and no statement      *)
(* touches two tables, so the calls are explored one table at a time: the  *)
(* movie operations while the token table is untouched, the token          *)
(* operations while the movie table is.                                    *)

MovieCalls == DoInsert \/ DoUpdate \/ DoDelete \/ DoGet \/ DoGetAllFirstPage

TokenCalls == DoTokenNew \/ DoDeleteAllForUser \/ Tick

NextStore == (TokensIdle /\ MovieCalls) \/ (MoviesIdle /\ TokenCalls)

SpecStore == InitMovies /\ [][NextStore]_vars

-----------------------------------------------------------------------------
(* Permissions and the gate on the movie routes.  A Permissions value is   *)
(* the sequence of codes GetAllForUser scanned; users_permissions is kept  *)
(* joined to the codes, a row being (user_id, code).                       *)

MaxGrants == 3

MoviesRead == "movies:read"

MoviesWrite == "movies:write"

\* The permissions table, in the order its rows are returned
PermissionsTable == <<MoviesRead, MoviesWrite>>

\* Codes a caller may name; the last one is no row of the permissions table
CodeInputs == Elems(PermissionsTable) \cup {"movies:admin"}

RECURSIVE IncludeFrom(_, _, _)
\* for i := range p { if p[i] == code { return true } }; return false
IncludeFrom(p, code, i) ==
    IF i > Len(p) THEN FALSE
    ELSE IF p[i] = code THEN TRUE
    ELSE IncludeFrom(p, code, i + 1)

\* (variant: any permission at all admits)
IncludeNonEmpty(p, code) == Len(p) > 0

Include(p, code) == IncludeFrom(p, code, 1)

\* SELECT permissions.code ... WHERE users.id = $1, appended row by row
GetAllForUser(tbl, userID, fault) ==
    IF fault # NoFault THEN [permissions |-> <<>>, err |-> DriverError(fault)]
    ELSE LET rows == SelectSeq(tbl, LAMBDA r : r.user_id = userID)
         IN  [permissions |-> [k \in 1 .. Len(rows) |-> rows[k].code],
              err |-> NoError]

\* INSERT INTO users_permissions SELECT $1, permissions.id FROM permissions
\* WHERE permissions.code = ANY($2): one row per permission named in codes
AddForUser(tbl, userID, codes, fault) ==
    IF fault # NoFault THEN [tbl |-> tbl, err |-> DriverError(fault)]
    ELSE LET named == SelectSeq(PermissionsTable, LAMBDA c : c \in codes)
         IN  [tbl |-> tbl \o [k \in 1 .. Len(named) |->
                                 [user_id |-> userID, code |-> named[k]]],
              err |-> NoError]

NoPermission == ""

NoHandler == ""

\* router.HandlerFunc / router.Handler registrations
Routes ==
    << [method |-> "GET", pattern |-> "/v1/healthcheck",
        permission |-> NoPermission, handler |-> "healthcheckHandler"],
       [method |-> "GET", pattern |-> "/debug/vars",
        permission |-> NoPermission, handler |-> "expvar.Handler"],
       [method |-> "GET", pattern |-> "/v1/movies",
        permission |-> MoviesRead, handler |-> "listMoviesHandler"],
       [method |-> "POST", pattern |-> "/v1/movies",
        permission |-> MoviesWrite, handler |-> "createMovieHandler"],
       [method |-> "GET", pattern |-> "/v1/movies/:id",
        permission |-> MoviesRead, handler |-> "showMovieHandler"],
       [method |-> "PATCH", pattern |-> "/v1/movies/:id",
        permission |-> MoviesWrite, handler |-> "updateMovieHandler"],
       [method |-> "DELETE", pattern |-> "/v1/movies/:id",
        permission |-> MoviesWrite, handler |-> "deleteMovieHandler"],
       [method |-> "POST", pattern |-> "/v1/users",
        permission |-> NoPermission, handler |-> "registerUserHandler"],
       [method |-> "POST", pattern |-> "/v1/tokens/activation",
        permission |-> NoPermission, handler |-> "createActivationTokenHandler"],
       [method |-> "PUT", pattern |-> "/v1/users/activated",
        permission |-> NoPermission, handler |-> "activateUserHandler"],
       [method |-> "POST", pattern |-> "/v1/tokens/authentication",
        permission |-> NoPermission, handler |-> "createAuthenticationTokenHandler"] >>

\* requirePermission(code, next) serving a request of the authenticated
\* user: the user's permissions are read, and next runs only if they
\* include the code
requirePermission(tbl, code, next, userID, fault) ==
    LET g == GetAllForUser(tbl, userID, fault)
    IN  IF g.err # NoError
        THEN [permissions |-> g.permissions, reply |-> "server error", reached |-> NoHandler]
        ELSE IF ~Include(g.permissions, code)
        THEN [permissions |-> g.permissions, reply |-> "not permitted", reached |-> NoHandler]
        ELSE [permissions |-> g.permissions, reply |-> "next", reached |-> next]

\* The router dispatching a request that matches a registered route
ServeRoute(tbl, route, userID, fault) ==
    IF route.permission = NoPermission
    THEN [permissions |-> <<>>, reply |-> "next", reached |-> route.handler]
    ELSE requirePermission(tbl, route.permission, route.handler, userID, fault)

GateUnchanged ==
    UNCHANGED <<movies, nextID, racer, tokens, now, drawn, issued, revoked, rt,
                validator, checks>>

DoAddForUser ==
    \E u \in Users, codes \in SUBSET CodeInputs, fault \in FaultInputs :
        LET r == AddForUser(users_permissions, u, codes, fault)
        IN  /\ Len(r.tbl) <= MaxGrants
            /\ users_permissions' = r.tbl
            /\ last' = [op |-> "AddForUser", user |-> u, codes |-> codes,
                        err |-> r.err, fault |-> fault]
            /\ GateUnchanged

DoRequest ==
    \E u \in Users, k \in 1 .. Len(Routes), fault \in FaultInputs :
        LET r == ServeRoute(users_permissions, Routes[k], u, fault)
        IN  /\ last' = [op |-> "Request", user |-> u, route |-> Routes[k],
                        permissions |-> r.permissions, reply |-> r.reply,
                        reached |-> r.reached, fault |-> fault]
            /\ UNCHANGED users_permissions
            /\ GateUnchanged

NextGate == DoAddForUser \/ DoRequest

SpecGate == InitMovies /\ [][NextGate]_vars

-----------------------------------------------------------------------------
(* The Validator: Errors maps a field key to the message kept for it.      *)

MaxChecks == 3

\* Keys and messages ValidateMovie checks with
Fields == {"title", "year"}

Messages == {"must be provided", "must not be in the future"}

\* &Validator{Errors: make(map[string]string)}
ValidatorNew == [Errors |-> <<>>]

\* v.Errors[key] = message
SetError(errors, key, message) ==
    [k \in DOMAIN errors \cup {key} |-> IF k = key THEN message ELSE errors[k]]

\* (variant: the entry is written whether or not the key exists)
AddErrorOverwrite(val, key, message) ==
    [Errors |-> SetError(val.Errors, key, message)]

AddError(val, key, message) ==
    IF key \notin DOMAIN val.Errors
    THEN [Errors |-> SetError(val.Errors, key, message)]
    ELSE val

Check(val, ok, key, message) ==
    IF ~ok THEN AddError(val, key, message) ELSE val

\* len(v.Errors) == 0
ValidatorValid(val) == Cardinality(DOMAIN val.Errors) = 0

ValidatorOnly ==
    UNCHANGED <<movies, nextID, last, racer, tokens, now, drawn, issued, revoked, rt,
                users_permissions>>

DoValidatorNew ==
    /\ checks # <<>>
    /\ validator' = ValidatorNew
    /\ checks' = <<>>
    /\ ValidatorOnly

DoCheck ==
    \E ok \in BOOLEAN, key \in Fields, message \in Messages :
        /\ Len(checks) < MaxChecks
        /\ validator' = Check(validator, ok, key, message)
        /\ checks' = Append(checks, [call |-> "Check", ok |-> ok, key |-> key,
                                     message |-> message])
        /\ ValidatorOnly

DoAddError ==
    \E key \in Fields, message \in Messages :
        /\ Len(checks) < MaxChecks
        /\ validator' = AddError(validator, key, message)
        /\ checks' = Append(checks, [call |-> "AddError", ok |-> FALSE, key |-> key,
                                     message |-> message])
        /\ ValidatorOnly

NextValidator == DoValidatorNew \/ DoCheck \/ DoAddError

SpecValidator == InitMovies /\ [][NextValidator]_vars

-----------------------------------------------------------------------------
(* Properties *)

\* The row an Update call addresses is stored with the version it supplies
Matches(tbl, m) == m.ID \in DOMAIN tbl /\ tbl[m.ID].version = m.Version

\* C2: a row is at version 1 right after Insert; an Update succeeds only if
\* the supplied version equals the stored one at write time, and does
\* succeed then; a successful Update raises the stored version by exactly 1
\* and returns it; no operation lowers a version or changes it otherwise.
C2_VersionDiscipline ==
    [][ /\ \A i \in DOMAIN movies' \ DOMAIN movies :
              /\ last'.op = "Insert"
              /\ movies'[i].version = 1
              /\ last'.out.ID = i
              /\ last'.out.Version = 1
        /\ \A i \in DOMAIN movies \cap DOMAIN movies' :
              /\ movies'[i].version >= movies[i].version
              /\ movies'[i].version # movies[i].version =>
                    /\ last'.op = "Update"
                    /\ last'.err = NoError
                    /\ last'.in.ID = i
                    /\ movies'[i].version = movies[i].version + 1
        /\ (last'.op = "Update" /\ last'.err = NoError) =>
              /\ Matches(movies, last'.in)
              /\ last'.in.ID \in DOMAIN movies'
              /\ movies'[last'.in.ID].version = last'.in.Version + 1
              /\ last'.out.Version = last'.in.Version + 1
        /\ (last'.op = "Update" /\ last'.fault = NoFault /\ Matches(movies, last'.in)) =>
              last'.err = NoError
      ]_vars

\* A stale update has failed: the row is at version 2, the call supplied 1
C2_Witness ==
    /\ last.op = "Update"
    /\ last.fault = NoFault
    /\ last.err # NoError
    /\ last.in.ID \in DOMAIN movies
    /\ last.in.Version = 1
    /\ movies[last.in.ID].version = 2

\* C3: Delete(id) fails with ErrRecordNotFound whenever no movie with that
\* id is stored at the time of the call, and returns success only when it
\* removed a row.
C3_DeleteOfMissingIsNotFound ==
    [][ (last'.op = "Delete" /\ last'.fault = NoFault) =>
            /\ last'.in \notin DOMAIN movies => last'.err = ErrRecordNotFound
            /\ last'.err = NoError =>
                  (last'.in \in DOMAIN movies /\ last'.in \notin DOMAIN movies')
      ]_vars

\* C4: an Update whose conditional write matches no row (the stored version
\* differs, or the record is gone) fails with ErrEditConflict, which
\* errors.Is tells apart from ErrRecordNotFound, from success and from the
\* driver's errors.
C4_ZeroRowsIsEditConflict ==
    [][ (last'.op = "Update" /\ last'.fault = NoFault /\ ~Matches(movies, last'.in)) =>
            /\ ErrorsIs(last'.err, ErrEditConflict)
            /\ ~ErrorsIs(last'.err, ErrRecordNotFound)
            /\ ~ErrorsIs(last'.err, NoError)
            /\ ~ErrorsIs(last'.err, SqlErrNoRows)
            /\ \A f \in Faults : ~ErrorsIs(last'.err, DriverError(f))
            /\ movies' = movies
      ]_vars

\* An Update of a record that was deleted has failed with ErrEditConflict
C4_Witness ==
    /\ last.op = "Update"
    /\ last.err = ErrEditConflict
    /\ last.in.ID \in 1 .. (nextID - 1)
    /\ last.in.ID \notin DOMAIN movies

\* C5: a token issued by TokenModel.New authenticates, with the scope it
\* was issued for and before its expiry (and unless revoked), as the user
\* it was issued for and as no other; with any other scope its plaintext is
\* not found.
C5_TokenAuthenticatesItsUser ==
    \A i \in issued :
        LET a == Authenticate(tokens, i.plain, i.scope, now)
        IN  /\ (i \notin revoked /\ now < i.expiry) => a = [user |-> i.user, err |-> NoError]
            /\ a.err = NoError => a.user = i.user
            /\ \A s \in Scopes \ {i.scope} :
                  Authenticate(tokens, i.plain, s, now).err = ErrRecordNotFound

\* Two live tokens of different users and scopes, each authenticating
C5_Witness ==
    \E i, j \in issued :
        /\ i.user # j.user
        /\ i.scope # j.scope
        /\ Authenticate(tokens, i.plain, i.scope, now) = [user |-> i.user, err |-> NoError]
        /\ Authenticate(tokens, j.plain, j.scope, now) = [user |-> j.user, err |-> NoError]

HandlerOps == {"createActivationTokenHandler", "createAuthenticationTokenHandler"}

Valid(i) == Authenticate(tokens, i.plain, i.scope, now).err = NoError

\* C6, as claimed: once a token-creation handler has issued a second token
\* for a (userID, scope) pair, no earlier plaintext of that pair still
\* authenticates: at most one token per pair is valid.
C6_ReissueInvalidatesEarlier ==
    \A i, j \in issued :
        (i.via = "handler" /\ j.via = "handler" /\ i.user = j.user
            /\ i.scope = j.scope /\ i.seq < j.seq) => ~Valid(i)

\* C6, amended: a token-creation handler deletes no token: it only adds a
\* row, and every plaintext issued earlier authenticates after the handler
\* exactly as it did before.
C6_HandlersRevokeNothing ==
    [][ last'.op \in HandlerOps =>
            /\ tokens \subseteq tokens'
            /\ \A i \in issued :
                  Authenticate(tokens', i.plain, i.scope, now')
                      = Authenticate(tokens, i.plain, i.scope, now)
      ]_vars

\* Two tokens of one user and scope, both issued by a handler, both valid
C6_Witness ==
    /\ last.op \in HandlerOps
    /\ \E i, j \in issued :
          /\ i.user = j.user /\ i.scope = j.scope /\ i.seq < j.seq
          /\ i.via = "handler" /\ j.via = "handler"
          /\ Valid(i) /\ Valid(j)

\* C7: after DeleteAllForUser(userID, scope) has returned without error, no
\* plaintext issued before it for that user and scope authenticates: each
\* is not found, then and ever after.
C7_RevokedIsNotFound ==
    \A i \in revoked :
        Authenticate(tokens, i.plain, i.scope, now).err = ErrRecordNotFound

\* DeleteAllForUser has just covered two tokens of one pair, one unexpired
C7_Witness ==
    /\ last.op = "DeleteAllForUser"
    /\ last.err = NoError
    /\ \E i, j \in revoked :
          /\ i # j /\ i.user = j.user /\ i.scope = j.scope
          /\ now < i.expiry

\* C8: decoding what MarshalJSON produced for a runtime of N minutes
\* succeeds and yields N, the text being "<N> mins".
C8_RuntimeRoundTrips ==
    rt.pc = "round trip" =>
        /\ rt.json = Text(rt.r)
        /\ rt.err = NoError
        /\ rt.back = rt.r

\* C9: the total GetAll returns in its metadata is the number of stored
\* movies matching the title and genre conditions, whatever the page.
C9_TotalIsWholeMatchingSet ==
    (last.op = "GetAll" /\ last.err = NoError) =>
        last.metadata.TotalRecords
            = Cardinality(Matching(movies, last.in.title, last.in.genres))

StoreOps == {"Insert", "Get", "Update", "Delete", "GetAll", "New", "DeleteAllForUser"}

\* The call reached the database (Get and Delete answer an id below 1
\* themselves)
Reached(call) == ~(call.op \in {"Get", "Delete"} /\ call.in < 1)

\* C10, as claimed: every error a store operation returns is one of the
\* store's own kinds, never the driver's.
C10_OnlyTaxonomyErrors ==
    last.op \in StoreOps => last.err \in {NoError, ErrRecordNotFound, ErrEditConflict}

\* C10, amended: the store translates sql.ErrNoRows alone (Get to
\* ErrRecordNotFound, Update to ErrEditConflict); any other error of the
\* driver, or of the random source, is returned to the caller unchanged.
C10_OnlyNoRowsIsTranslated ==
    last.op \in StoreOps =>
        /\ (last.fault # NoFault /\ Reached(last)) => last.err = DriverError(last.fault)
        /\ (last.op = "New" /\ ~last.randOK) => last.err = ErrRand
        /\ (last.fault = NoFault /\ (last.op = "New" => last.randOK)) =>
              /\ last.err \in {NoError, ErrRecordNotFound, ErrEditConflict}
              /\ last.err = ErrEditConflict => last.op = "Update"
              /\ last.err = ErrRecordNotFound => last.op \in {"Get", "Delete"}

\* An Update of a stored row came back with the driver's own error
C10_Witness ==
    /\ last.op = "Update"
    /\ last.in.ID \in DOMAIN movies
    /\ last.err = DriverError("context deadline exceeded")

MoviePatterns == {"/v1/movies", "/v1/movies/:id"}

ReadingHandlers == {"listMoviesHandler", "showMovieHandler"}

MutatingHandlers == {"createMovieHandler", "updateMovieHandler", "deleteMovieHandler"}

\* C11: Include(code) is true exactly when code is an element of the
\* permission set; a request on a movie route reaches its handler exactly
\* when the user holds the route's code, which is "movies:read" for list
\* and show and "movies:write" for create, update and delete, and every
\* route to a movie handler is so gated; hence a user holding only
\* "movies:read" never reaches a mutating movie handler.
C11_GateIsMembership ==
    /\ \A u \in Users, c \in CodeInputs :
          LET p == GetAllForUser(users_permissions, u, NoFault).permissions
          IN  Include(p, c) <=> c \in Elems(p)
    /\ \A k \in 1 .. Len(Routes) :
          /\ Routes[k].pattern \in MoviePatterns
                <=> Routes[k].handler \in ReadingHandlers \cup MutatingHandlers
          /\ Routes[k].handler \in ReadingHandlers
                => Routes[k].method = "GET" /\ Routes[k].permission = MoviesRead
          /\ Routes[k].handler \in MutatingHandlers
                => Routes[k].method # "GET" /\ Routes[k].permission = MoviesWrite
    /\ (last.op = "Request" /\ last.route.pattern \in MoviePatterns) =>
          LET need == IF last.route.method = "GET" THEN MoviesRead ELSE MoviesWrite
              held == Elems(GetAllForUser(users_permissions, last.user, NoFault).permissions)
          IN  /\ last.reached \in {NoHandler, last.route.handler}
              /\ last.fault = NoFault
                    => (last.reached = last.route.handler <=> need \in held)
              /\ last.reached # NoHandler => need \in held
              /\ last.reached \in MutatingHandlers => MoviesWrite \in held

\* A user holding only "movies:read" was refused a mutating movie route
\* and, holding both codes, another was let through to one
C11_Witness ==
    /\ last.op = "Request"
    /\ last.route.handler \in MutatingHandlers
    /\ last.fault = NoFault
    /\ last.permissions = <<MoviesRead>>
    /\ last.reply = "not permitted"
    /\ last.reached = NoHandler
    /\ \E u \in Users :
          Elems(GetAllForUser(users_permissions, u, NoFault).permissions)
              = {MoviesRead, MoviesWrite}

\* The calls made so far that record a failure for key, by position
Failing(key) == {k \in 1 .. Len(checks) : ~checks[k].ok /\ checks[k].key = key}

\* C12: after any sequence of Check and AddError calls, a field has an
\* entry exactly when some failing call named it, the entry is the message
\* of the first such call (later failures and passing checks change
\* nothing), and Valid() is true exactly when no failing call was made.
C12_FirstMessageKept ==
    /\ DOMAIN validator.Errors \subseteq Fields
    /\ \A key \in Fields :
          /\ key \in DOMAIN validator.Errors <=> Failing(key) # {}
          /\ Failing(key) # {} =>
                \E k \in Failing(key) :
                    /\ \A j \in Failing(key) : k <= j
                    /\ validator.Errors[key] = checks[k].message
    /\ ValidatorValid(validator) <=> \A k \in 1 .. Len(checks) : checks[k].ok

\* A field failed twice with different messages, a passing check came in
\* between or after, and the first message is the one kept
C12_Witness ==
    \E i, j, k \in 1 .. Len(checks) :
        /\ i < j
        /\ ~checks[i].ok /\ ~checks[j].ok
        /\ checks[i].key = checks[j].key
        /\ checks[i].message # checks[j].message
        /\ Failing(checks[i].key) = {i, j}
        /\ checks[k].ok
        /\ validator.Errors[checks[i].key] = checks[i].message
        /\ ~ValidatorValid(validator)

\* C13: an Update that fails with ErrEditConflict changes nothing: every
\* stored row keeps its title, year, runtime, genres and version, no row is
\* added or removed, and the caller's movie struct is as it was passed in,
\* its version included.
C13_FailedUpdateChangesNothing ==
    [][ (last'.op = "Update" /\ ErrorsIs(last'.err, ErrEditConflict)) =>
            /\ DOMAIN movies' = DOMAIN movies
            /\ \A i \in DOMAIN movies : movies'[i] = movies[i]
            /\ nextID' = nextID
            /\ last'.out = last'.in
            /\ last'.out.Version = last'.in.Version
      ]_vars

\* A stale Update carrying new field values for a stored row has failed
\* with ErrEditConflict while another row is stored too
C13_Witness ==
    /\ last.op = "Update"
    /\ last.err = ErrEditConflict
    /\ last.in.ID \in DOMAIN movies
    /\ movies[last.in.ID].version # last.in.Version
    /\ Row(last.in, movies[last.in.ID].version) # movies[last.in.ID]
    /\ Cardinality(DOMAIN movies) >= 2
    /\ last.out.Version = last.in.Version

\* The integer written in a text "<N> mins", as sign and 64-bit magnitude
Written(jsonValue) == ParseInt(Split(Unquote(jsonValue).text, " ")[1])

\* Whether a written integer lies within int32
InInt32(m) ==
    /\ m.limbs[3] = 0
    /\ m.limbs[4] = 0
    /\ \/ m.limbs[2] < HalfLimb
       \/ m.neg /\ m.limbs[2] = HalfLimb /\ m.limbs[1] = 0

\* The value of a written integer that lies within int32
Value32(m) ==
    IF m.neg THEN (0 - m.limbs[2]) * LimbBase - m.limbs[1]
    ELSE m.limbs[2] * LimbBase + m.limbs[1]

\* C14: UnmarshalJSON of a text "<N> mins" either fails with
\* ErrInvalidRuntimeFormat or sets the runtime to exactly N; in particular
\* an N outside the 32-bit range of Runtime is never accepted as some other
\* number of minutes.
C14_NoWrapAround ==
    rt.pc = "decoded" =>
        /\ rt.err \in {NoError, ErrInvalidRuntimeFormat}
        /\ rt.err = NoError =>
              /\ InInt32(Written(rt.json))
              /\ rt.back = Value32(Written(rt.json))

====
